---- MODULE Spec2Model ----
(***************************************************************************)
(* Model of the package archive engine of pax: DataBuilder (deb.rs), the   *)
(* directory walker (util.rs) and BuildSpec::build (build.rs).             *)
(*                                                                         *)
(* A Rust String / PathBuf is a sequence of one-character strings, so that *)
(* byte-wise ordering, path splitting and joining are computed, not        *)
(* assumed.                                                                *)
(***************************************************************************)
EXTENDS Integers, Sequences, FiniteSets, TLC

VARIABLES
    fsOrder,     \* file system: the order fs::read_dir yields each directory
    b,           \* a DataBuilder driven directly through add_path
    calls,       \* number of add_path calls made on b
    lastAdd,     \* the last add_path call on b and its outcome
    spec,        \* the BuildSpec handed to build
    disk,        \* the destination .deb file
    out,         \* what the last build returned and produced
    ret,         \* the last call of a method of BuildSpec or Version, build aside
    vtext,       \* the version string handed to Version::try_from
    project      \* a Project, its buildno.txt and the build numbers it used

vars == <<fsOrder, b, calls, lastAdd, spec, disk, out, ret, vtext, project>>

NONE == "none"

\* `let x = v; F(x)`: v is computed once and F sees its value
With(v, F(_)) == CHOOSE y \in {F(x) : x \in {v}} : TRUE

-----------------------------------------------------------------------------
(* Bounds of the model *)

\* manifest entries of a BuildSpec
MaxFiles == 2
\* add_path calls made on one DataBuilder
MaxAdds == 2

-----------------------------------------------------------------------------
(* Strings *)

\* byte value of each character the model uses
Ascii ==
    [c \in {"\n", " ", ".", "/", "0", "1", "2", "3", "4", "5", "6", "7", "8",
            "9", "a", "b", "c", "d", "e", "f", "s", "u", "x", "y", "z",
            "+", "-", ":", "V", "v", "~"} |->
        CASE c = "\n" -> 10 [] c = " " -> 32 [] c = "." -> 46 [] c = "/" -> 47
          [] c = "0" -> 48 [] c = "1" -> 49 [] c = "2" -> 50 [] c = "3" -> 51
          [] c = "4" -> 52 [] c = "5" -> 53 [] c = "6" -> 54 [] c = "7" -> 55
          [] c = "8" -> 56 [] c = "9" -> 57 [] c = "a" -> 97 [] c = "b" -> 98
          [] c = "c" -> 99 [] c = "d" -> 100 [] c = "e" -> 101
          [] c = "f" -> 102 [] c = "s" -> 115 [] c = "u" -> 117
          [] c = "x" -> 120 [] c = "y" -> 121 [] c = "z" -> 122
          [] c = "+" -> 43 [] c = "-" -> 45 [] c = ":" -> 58 [] c = "V" -> 86
          [] c = "v" -> 118 [] c = "~" -> 126]

\* String's Ord: byte-wise lexicographic, a proper prefix is smaller
RECURSIVE StrLess(_, _)
StrLess(s, t) ==
    IF t = <<>> THEN FALSE
    ELSE IF s = <<>> THEN TRUE
    ELSE IF Ascii[Head(s)] # Ascii[Head(t)] THEN Ascii[Head(s)] < Ascii[Head(t)]
    ELSE StrLess(Tail(s), Tail(t))

StrLeq(s, t) == s = t \/ StrLess(s, t)

Last(s) == s[Len(s)]

\* concatenation of a sequence of strings
RECURSIVE Concat(_)
Concat(ss) == IF ss = <<>> THEN <<>> ELSE Head(ss) \o Concat(Tail(ss))

-----------------------------------------------------------------------------
(* std::path *)

\* the '/'-separated pieces of a string, empty pieces included
RECURSIVE Split(_, _)
Split(s, cur) ==
    IF s = <<>> THEN <<cur>>
    ELSE IF Head(s) = "/" THEN <<cur>> \o Split(Tail(s), <<>>)
    ELSE Split(Tail(s), Append(cur, Head(s)))

IsAbsolute(p) == p # <<>> /\ Head(p) = "/"

RootDir == <<"/">>
CurDir == <<".">>

\* Path::components: a root for an absolute path, a leading "." kept, repeated
\* separators, inner "." and a trailing separator dropped
Components(p) ==
    With(Split(p, <<>>), LAMBDA pieces :
        (IF IsAbsolute(p) THEN <<RootDir>>
         ELSE IF p # <<>> /\ pieces[1] = CurDir THEN <<CurDir>>
         ELSE <<>>)
        \o SelectSeq(pieces, LAMBDA c : c # <<>> /\ c # CurDir))

IsNormal(c) == c # RootDir /\ c # CurDir /\ c # <<".", ".">>

\* PathBuf::push, which Path::join and collect() are built on
Push(buf, p) ==
    IF IsAbsolute(p) THEN p
    ELSE IF buf # <<>> /\ Last(buf) # "/" THEN buf \o <<"/">> \o p
    ELSE buf \o p

Join(a, p) == Push(a, p)

RECURSIVE Collect(_, _)
Collect(buf, comps) ==
    IF comps = <<>> THEN buf ELSE Collect(Push(buf, Head(comps)), Tail(comps))

\* Path::parent: the path without its last component, NONE for a root or ""
Parent(p) ==
    With(Components(p), LAMBDA cs :
        IF cs = <<>> \/ Last(cs) = RootDir THEN NONE
        ELSE Collect(<<>>, SubSeq(cs, 1, Len(cs) - 1)))

strip_leading_slash(p) ==
    IF IsAbsolute(p) THEN Collect(<<>>, Tail(Components(p))) ELSE p

-----------------------------------------------------------------------------
(* The file system the builder reads *)

\* Source paths (relative to the working directory) and what lives there.
\* "f", "g": regular files; "e": a regular file whose read fails with an I/O
\* error after its readable bytes; "l": a symlink to "f"; "k": a dangling
\* symlink; "p": a FIFO; "d": a directory holding the file "1" and the
\* directory "u", which holds the file "2" and the symlink "s" -> "2";
\* "n": a directory holding the FIFO "q".
\* Any other path does not exist.
FS ==
    [n \in {"f", "g", "e", "l", "k", "p", "d", "d1", "ds", "du", "du2", "n", "nq"} |->
        CASE n = "f"   -> [kind |-> "file", name |-> <<"f">>, content |-> <<1, 2>>, readable |-> 2]
          [] n = "g"   -> [kind |-> "file", name |-> <<"g">>, content |-> <<3>>, readable |-> 1]
          [] n = "e"   -> [kind |-> "file", name |-> <<"e">>, content |-> <<4, 5>>, readable |-> 1]
          [] n = "l"   -> [kind |-> "symlink", name |-> <<"l">>, target |-> "f"]
          [] n = "k"   -> [kind |-> "symlink", name |-> <<"k">>, target |-> "gone"]
          [] n = "p"   -> [kind |-> "fifo", name |-> <<"p">>]
          [] n = "d"   -> [kind |-> "dir", name |-> <<"d">>, children |-> {"d1", "du"}]
          [] n = "d1"  -> [kind |-> "file", name |-> <<"1">>, content |-> <<6>>, readable |-> 1]
          [] n = "ds"  -> [kind |-> "symlink", name |-> <<"s">>, target |-> "du2"]
          [] n = "du"  -> [kind |-> "dir", name |-> <<"u">>, children |-> {"du2", "ds"}]
          [] n = "du2" -> [kind |-> "file", name |-> <<"2">>, content |-> <<7, 8>>, readable |-> 2]
          [] n = "n"   -> [kind |-> "dir", name |-> <<"n">>, children |-> {"nq"}]
          [] n = "nq"  -> [kind |-> "fifo", name |-> <<"q">>]]

TopLevel == {"f", "g", "e", "l", "k", "p", "d", "n"}
Dirs == {n \in DOMAIN FS : FS[n].kind = "dir"}

\* the node a source path names, NONE when nothing is there
Lookup(source) ==
    IF \E n \in TopLevel : FS[n].name = source
    THEN CHOOSE n \in TopLevel : FS[n].name = source
    ELSE NONE

\* every order fs::read_dir may yield the entries of a directory with
Orders(S) == {o \in [1..Cardinality(S) -> S] : \A x \in S : \E i \in DOMAIN o : o[i] = x}

\* fs::metadata: follows symlinks, so the type it reports is never "symlink"
Stat(source) ==
    With(Lookup(source), LAMBDA n :
    With(IF n # NONE /\ FS[n].kind = "symlink" THEN FS[n].target ELSE n, LAMBDA m :
        IF n = NONE \/ m \notin DOMAIN FS THEN [ok |-> FALSE]
        ELSE [ok |-> TRUE, node |-> m, kind |-> FS[m].kind,
              size |-> IF FS[m].kind = "file" THEN Len(FS[m].content) ELSE 0]))

\* DirEntry::metadata and DirEntry::file_type: do not follow symlinks
EntryMeta(n) ==
    [node |-> n, kind |-> FS[n].kind,
     size |-> IF FS[n].kind = "file" THEN Len(FS[n].content) ELSE 0]

-----------------------------------------------------------------------------
(* MD5 and hex *)

\* MD5 binary hash length
MD5_LEN == 16

\* Stand-in for MD5: a deterministic digest of MD5_LEN bytes that depends on
\* every byte absorbed and on their order.
RECURSIVE Mix(_, _)
Mix(acc, bytes) ==
    IF bytes = <<>> THEN acc
    ELSE Mix((acc * 33 + Head(bytes) + 1) % 65536, Tail(bytes))

Md5(bytes) ==
    With(Mix(5381, bytes), LAMBDA h :
        [i \in 1..MD5_LEN |-> ((IF i % 2 = 1 THEN h \div 256 ELSE h % 256) + i * 17) % 256])

HexDigits == <<"0", "1", "2", "3", "4", "5", "6", "7", "8", "9", "a", "b", "c", "d", "e", "f">>

\* hex::encode_to_slice: two lower-case digits per byte, high nibble first
RECURSIVE HexEncode(_)
HexEncode(bytes) ==
    IF bytes = <<>> THEN <<>>
    ELSE <<HexDigits[(Head(bytes) \div 16) + 1], HexDigits[(Head(bytes) % 16) + 1]>>
         \o HexEncode(Tail(bytes))

-----------------------------------------------------------------------------
(* DataBuilder *)

\* A DataBuilder: the tar entries written so far, the clock value taken at
\* construction, the accumulated size, the directories already emitted, the
\* bytes the reusable hasher has absorbed since its last reset, and the
\* (digest, path) pairs pushed to the caller's vector.
DataBuilder_new(time) ==
    [tar |-> <<>>, time |-> time, size |-> 0, dirs |-> {}, hasher |-> <<>>,
     hashes |-> <<>>]

Ok(bd) == [ok |-> TRUE, err |-> NONE, b |-> bd]
Err(e, bd) == [ok |-> FALSE, err |-> e, b |-> bd]

\* mode 0o755 of a synthesized directory entry
DirMode == 493

directory(bd, path) ==
    [bd EXCEPT !.tar = Append(@, [type |-> "dir",
                                  path |-> IF path # <<>> /\ Last(path) = "/" THEN path
                                           ELSE path \o <<"/">>,
                                  size |-> 0, mode |-> DirMode, mtime |-> bd.time])]

NeedsDirectory_always(dirs, d) == TRUE

\* the visited-set test of add_parent_directories
NeedsDirectory(dirs, d) == d \notin dirs

RECURSIVE ParentLoop(_, _, _)
ParentLoop(bd, dir, comps) ==
    IF comps = <<>> THEN bd
    ELSE IF ~IsNormal(Head(comps)) THEN ParentLoop(bd, dir, Tail(comps))
    ELSE With(Push(dir, Head(comps)), LAMBDA d :
         With(IF NeedsDirectory(bd.dirs, d)
              THEN directory([bd EXCEPT !.dirs = @ \cup {d}], d)
              ELSE bd, LAMBDA nb :
             ParentLoop(nb, d, Tail(comps))))

add_parent_directories(bd, path) ==
    With(Parent(path), LAMBDA parent :
        IF parent = NONE THEN Err("invalid path", bd)
        ELSE Ok(ParentLoop(bd, <<>>, Components(Join(CurDir, parent)))))

AddSize_twice(size, n) == size + n + n

finalize_reset_keep(h) == [digest |-> Md5(h), hasher |-> h]

\* Digest::finalize_reset: the digest of what was absorbed, and an empty hasher
finalize_reset(h) == [digest |-> Md5(h), hasher |-> <<>>]

\* self.size += size
AddSize(size, n) == size + n

\* tar::Builder::append_data through a HashReader: the header, then the bytes
\* of the reader, each read passing through the hasher. A read error leaves
\* the bytes read so far in the tar stream and in the hasher.
add_reader(bd, dest, node, size, mode) ==
    With(strip_leading_slash(dest), LAMBDA dst :
    With(add_parent_directories(bd, dst), LAMBDA pd :
    With(SubSeq(FS[node].content, 1, FS[node].readable), LAMBDA got :
    With([type |-> "file", path |-> dst, size |-> size, mode |-> mode,
          mtime |-> bd.time, uid |-> 0, gid |-> 0, data |-> got], LAMBDA head :
    With([pd.b EXCEPT !.hasher = @ \o got], LAMBDA fed :
    With(finalize_reset(fed.hasher), LAMBDA fin :
        IF ~pd.ok THEN pd
        ELSE IF FS[node].readable < Len(FS[node].content)
        THEN Err("read", [fed EXCEPT !.tar = Append(@, [head EXCEPT !.type = "truncated"])])
        ELSE Ok([fed EXCEPT !.tar = Append(@, head),
                            !.size = AddSize(@, size),
                            !.hashes = Append(@, <<fin.digest, dst>>),
                            !.hasher = fin.hasher])))))))

add_reader_metadata(bd, dest, node, meta) ==
    add_reader(bd, dest, node, meta.size, "st_mode")

\* Walker::walk: the entries handed to the callback, in read_dir order, each
\* with its path relative to the walked directory; directories are descended
\* into and not handed over.
RECURSIVE WalkDir(_, _, _)
RECURSIVE WalkEach(_, _, _, _)
WalkEach(order, dirs, rel, i) ==
    IF i > Len(dirs) THEN <<>>
    ELSE (IF FS[dirs[i]].kind = "dir"
          THEN WalkDir(order, dirs[i], Join(rel, FS[dirs[i]].name))
          ELSE <<[rel |-> Join(rel, FS[dirs[i]].name), node |-> dirs[i]]>>)
         \o WalkEach(order, dirs, rel, i + 1)

WalkDir(order, dir, rel) == WalkEach(order, order[dir], rel, 1)

walk_flat(order, dir) ==
    [i \in 1..Len(order[dir]) |-> [rel |-> FS[order[dir][i]].name, node |-> order[dir][i]]]

walk(order, dir) == WalkDir(order, dir, <<>>)

\* the closure add_path hands to walk, applied to one entry
WalkCallback(bd, dst, entry) ==
    With(EntryMeta(entry.node), LAMBDA meta :
        IF meta.kind = "symlink"
        THEN Ok([bd EXCEPT !.tar = Append(@, [type |-> "symlink",
                                              path |-> Join(dst, entry.rel), size |-> 0,
                                              link |-> FS[entry.node].target,
                                              mtime |-> "st_mtime"])])
        ELSE IF meta.kind = "file"
        THEN add_reader_metadata(bd, Join(dst, entry.rel), entry.node, meta)
        ELSE Ok(bd))

RECURSIVE WalkFold(_, _, _)
WalkFold(bd, dst, entries) ==
    IF entries = <<>> THEN Ok(bd)
    ELSE With(WalkCallback(bd, dst, Head(entries)), LAMBDA r :
             IF r.ok THEN WalkFold(r.b, dst, Tail(entries)) ELSE r)

add_path(order, bd, source, dest) ==
    With(strip_leading_slash(dest), LAMBDA dst :
    With(Stat(source), LAMBDA stat :
        IF ~stat.ok THEN Err("stat", bd)
        ELSE IF stat.kind = "symlink" THEN Err("unsupported", bd)
        ELSE IF stat.kind = "file" THEN add_reader_metadata(bd, dst, stat.node, stat)
        ELSE IF stat.kind = "dir" THEN WalkFold(bd, dst, walk(order, stat.node))
        ELSE Err("unsupported", bd)))

\* DataBuilder::add_dir is called by BuildSpec::build for a directory marker:
\* one directory entry at the given mode, no hash, nothing added to size.
add_dir(bd, dir, mode) ==
    With(strip_leading_slash(dir), LAMBDA path :
        Ok([bd EXCEPT !.tar = Append(@, [type |-> "dir",
                                         path |-> IF path # <<>> /\ Last(path) = "/"
                                                  THEN path ELSE path \o <<"/">>,
                                         size |-> 0, mode |-> mode, mtime |-> bd.time])]))

-----------------------------------------------------------------------------
(* DebArchive: the ar container, written through a BufWriter *)

\* ar::Builder writes the global header "!<arch>\n" before its first member
ArEmpty == [magic |-> FALSE, members |-> <<>>]

ArAppend(ar, name, mode, mtime, size, data) ==
    [magic |-> TRUE,
     members |-> Append(ar.members, [name |-> name, mode |-> mode, mtime |-> mtime,
                                     size |-> size, data |-> data])]

DebArchive_init(ar, time) == ArAppend(ar, "debian-binary", 420, time, 4, "2.0\n")

append_vec(ar, time, name, data) == ArAppend(ar, name, 420, time, Len(data), data)

-----------------------------------------------------------------------------
(* u64 and f64 *)

\* the divisor of Installed-Size; u64 values are written in digits of this
\* base, least significant first
KiB == 1024

RECURSIVE Digits(_, _)
Digits(n, k) == IF k = 0 THEN <<>> ELSE <<n % KiB>> \o Digits(n \div KiB, k - 1)

\* a u64 given as a small number
U64(n) == Digits(n, 7)

\* v + c * KiB^(i-1)
RECURSIVE AddAt(_, _, _)
AddAt(v, i, c) ==
    IF c = 0 THEN v
    ELSE IF i = Len(v) THEN [v EXCEPT ![i] = @ + c]
    ELSE AddAt([v EXCEPT ![i] = (@ + c) % KiB], i + 1, (v[i] + c) \div KiB)

BitLen(x) == IF x = 0 THEN 0 ELSE CHOOSE k \in 1..11 : 2^(k-1) <= x /\ x < 2^k

\* the position of the highest set bit, -1 for zero
HighBit(v) ==
    IF \A i \in DOMAIN v : v[i] = 0 THEN 0 - 1
    ELSE With(CHOOSE i \in DOMAIN v : v[i] # 0 /\ \A j \in DOMAIN v : j > i => v[j] = 0,
              LAMBDA top : 10 * (top - 1) + BitLen(v[top]) - 1)

\* `x as f64` for a u64: the nearest value with 53 significant bits, ties to
\* the even one. At most 11 low bits are dropped.
as_f64(v) ==
    With(HighBit(v) - 52, LAMBDA r :
        IF r <= 0 THEN v
        ELSE With(v[1] + KiB * v[2], LAMBDA x :
             With(IF x % 2^r > 2^(r-1) \/ (x % 2^r = 2^(r-1) /\ (x \div 2^r) % 2 = 1)
                  THEN 1 ELSE 0, LAMBDA up :
                 AddAt([v EXCEPT ![1] = 0, ![2] = 0], 1, ((x \div 2^r) + up) * 2^r))))

\* `x / 1024.0`: exact, only the exponent changes
div_1024(x) == [int |-> Tail(x) \o <<0>>, frac |-> x[1]]

\* f64::ceil, then `as u64`. A quotient with a fraction is below 2^52, so
\* the next whole number is a value of f64.
ceil(q) == IF q.frac = 0 THEN q.int ELSE AddAt(q.int, 1, 1)

\* the value of the Installed-Size line
InstalledSize(install_size) == ceil(div_1024(as_f64(install_size)))

\* Option<T> where T is not a String
None == <<>>
Some(n) == <<n>>

-----------------------------------------------------------------------------
(* BuildSpec *)

validate_accept_all(s) == TRUE

validate(s) == ~(s.maintainer = NONE /\ s.author = NONE /\ s.email = NONE)

version_suffix_when_set(s) ==
    IF s.buildno # None THEN <<s.version, "-", s.buildno[1]>>
    ELSE <<s.version>>

version(s) ==
    IF s.buildno # None /\ s.buildno[1] > 0 THEN <<s.version, "-", s.buildno[1]>>
    ELSE <<s.version>>

filename(s) == <<s.package, "-v">> \o version(s) \o <<"_", s.arch, ".deb">>

Maintainer_author_first(s) ==
    IF s.author # NONE /\ s.email # NONE THEN <<s.author, " <", s.email, ">">>
    ELSE IF s.author # NONE THEN <<s.author>>
    ELSE IF s.email # NONE THEN <<s.email>>
    ELSE IF s.maintainer # NONE THEN <<s.maintainer>>
    ELSE NONE

Maintainer_without_email_only(s) ==
    IF s.maintainer # NONE THEN <<s.maintainer>>
    ELSE IF s.author # NONE /\ s.email # NONE THEN <<s.author, " <", s.email, ">">>
    ELSE IF s.author # NONE THEN <<s.author>>
    ELSE NONE

\* the value of the Maintainer line, NONE when there is nothing to build it of
Maintainer(s) ==
    IF s.maintainer # NONE THEN <<s.maintainer>>
    ELSE IF s.author # NONE /\ s.email # NONE THEN <<s.author, " <", s.email, ">">>
    ELSE IF s.author # NONE THEN <<s.author>>
    ELSE IF s.email # NONE THEN <<s.email>>
    ELSE NONE

Line(key, value) == << <<key, value>> >>
OptLine(key, v) == IF v = NONE THEN <<>> ELSE Line(key, v)

\* the lines written before Maintainer
ControlHead(s) ==
    Line("Package", s.package) \o Line("Version", version(s))
    \o Line("Section", IF s.section # NONE THEN s.section ELSE "misc")
    \o Line("Priority", s.priority) \o Line("Architecture", s.arch)

ControlTail_homepage_last(s, install_size) ==
    OptLine("Urgency", s.urgency)
    \o (IF install_size # U64(0)
        THEN Line("Installed-Size", InstalledSize(install_size)) ELSE <<>>)
    \o (IF s.essential THEN Line("Essential", "yes") ELSE <<>>)
    \o (IF s.dependencies # <<>> THEN Line("Depends", s.dependencies) ELSE <<>>)
    \o OptLine("Description", s.description)
    \o (IF s.recommends # None /\ s.recommends[1] # <<>>
        THEN Line("Recommends", s.recommends[1]) ELSE <<>>)
    \o (IF s.suggests # None /\ s.suggests[1] # <<>>
        THEN Line("Suggests", s.suggests[1]) ELSE <<>>)
    \o OptLine("Homepage", s.homepage)

\* the lines written after Maintainer
ControlTail(s, install_size) ==
    OptLine("Urgency", s.urgency)
    \o (IF install_size # U64(0)
        THEN Line("Installed-Size", InstalledSize(install_size)) ELSE <<>>)
    \o OptLine("Homepage", s.homepage)
    \o (IF s.essential THEN Line("Essential", "yes") ELSE <<>>)
    \o (IF s.dependencies # <<>> THEN Line("Depends", s.dependencies) ELSE <<>>)
    \o OptLine("Description", s.description)
    \o (IF s.recommends # None /\ s.recommends[1] # <<>>
        THEN Line("Recommends", s.recommends[1]) ELSE <<>>)
    \o (IF s.suggests # None /\ s.suggests[1] # <<>>
        THEN Line("Suggests", s.suggests[1]) ELSE <<>>)

\* the lines generate_control writes, each a <<key, value>> pair; on the
\* error return the lines before Maintainer have been written
generate_control(s, install_size) ==
    With(Maintainer(s), LAMBDA maint :
        IF maint = NONE
        THEN [ok |-> FALSE, err |-> "could not build maintainer", lines |-> ControlHead(s)]
        ELSE [ok |-> TRUE, err |-> NONE,
              lines |-> ControlHead(s) \o Line("Maintainer", maint)
                        \o ControlTail(s, install_size)])

\* Path::file_name: the last component if it is a normal one, NONE for "",
\* "/" and a path that ends in ".."
file_name(p) ==
    With(Components(p), LAMBDA cs :
        IF cs = <<>> \/ ~IsNormal(Last(cs)) THEN NONE ELSE Last(cs))

\* one step of the loops of pre_process, on one file
PreProcessFile(file, base) ==
    IF file.dst # <<>> THEN file
    ELSE IF base = None THEN [file EXCEPT !.dst = file.src]
    ELSE IF file_name(file.src) = NONE THEN file
    ELSE [file EXCEPT !.dst = Join(base[1], file_name(file.src))]

\* pre_process: the spec with its files rewritten in place
pre_process(s, base) ==
    [s EXCEPT !.files = [i \in DOMAIN s.files |-> PreProcessFile(s.files[i], base)]]

\* tar_header!
tar_header(path, mtime, mode, size) ==
    [path |-> path, mtime |-> mtime, uid |-> 0, gid |-> 0, mode |-> mode, size |-> size]

Md5sumsRow_onespace(hash) == HexEncode(hash[1]) \o <<" ">> \o hash[2] \o <<"\n">>

\* one row of md5sums
Md5sumsRow(hash) == HexEncode(hash[1]) \o <<" ", " ">> \o hash[2] \o <<"\n">>

md5sum_buf(hashes) == Concat([i \in 1..Len(hashes) |-> Md5sumsRow(hashes[i])])

Whitespace == {" ", "\n", "\t"}

\* str::trim: without its leading and trailing whitespace
RECURSIVE TrimStart(_)
TrimStart(t) == IF t # <<>> /\ Head(t) \in Whitespace THEN TrimStart(Tail(t)) ELSE t

RECURSIVE TrimEnd(_)
TrimEnd(t) ==
    IF t # <<>> /\ Last(t) \in Whitespace THEN TrimEnd(SubSeq(t, 1, Len(t) - 1)) ELSE t

Trim(t) == TrimEnd(TrimStart(t))

\* one appended entry of the control tar: the header and the bytes after it
Entry(path, now, mode, size, data) ==
    [head |-> tar_header(path, now, mode, size), data |-> data]

\* the generated scripts, as the pieces they are formatted of
AptPreinst(sources) ==
    <<"#!/bin/sh\nset -eu\nmkdir -p /usr/share/keyrings/\n">>
    \o Concat([i \in DOMAIN sources |->
                 <<"wget", sources[i].name, sources[i].gpg_key_url,
                   "chmod", sources[i].name,
                   "echo", sources[i].name, sources[i].url, sources[i].components,
                   sources[i].name>>])

AptPostrm(sources) ==
    <<"#!/bin/sh\nset -eu\n">>
    \o Concat([i \in DOMAIN sources |-> <<"rm", sources[i].name, sources[i].name>>])

\* one explicit script: the header carries the length of the script as
\* given, the bytes are the trimmed script
ScriptEntry(name, now, script) ==
    IF script = None THEN <<>>
    ELSE <<Entry(name, now, 493, Len(script[1]), Trim(script[1]))>>

ExplicitScripts(scripts, now) ==
    ScriptEntry("preinst", now, scripts.preinst)
    \o ScriptEntry("postinst", now, scripts.postinst)
    \o ScriptEntry("prerm", now, scripts.prerm)
    \o ScriptEntry("postrm", now, scripts.postrm)

GeneratedScripts(sources, now) ==
    << Entry("preinst", now, 493, Len(AptPreinst(sources)), AptPreinst(sources)),
       Entry("postrm", now, 493, Len(AptPostrm(sources)), AptPostrm(sources)) >>

ScriptEntries_scripts_first(s, now) ==
    IF s.scripts # None THEN ExplicitScripts(s.scripts[1], now)
    ELSE IF s.apt_sources # None THEN GeneratedScripts(s.apt_sources[1], now)
    ELSE <<>>

\* the entries after md5sums
ScriptEntries(s, now) ==
    IF s.apt_sources # None THEN GeneratedScripts(s.apt_sources[1], now)
    ELSE IF s.scripts # None THEN ExplicitScripts(s.scripts[1], now)
    ELSE <<>>

\* the entries control_tarball appends, all stamped with the clock reading
\* it takes itself
control_tarball(s, now, size, hashes) ==
    With(generate_control(s, U64(size)), LAMBDA gc :
    With(md5sum_buf(hashes), LAMBDA sums :
        IF ~gc.ok THEN [ok |-> FALSE, err |-> gc.err, entries |-> <<>>]
        ELSE [ok |-> TRUE, err |-> NONE,
              entries |-> << Entry("control", now, 420, Len(gc.lines), gc.lines),
                             Entry("md5sums", now, 420, Len(sums), sums) >>
                          \o ScriptEntries(s, now)]))

RECURSIVE InsertByDst_before_equal(_, _)
InsertByDst_before_equal(sorted, f) ==
    IF sorted = <<>> THEN <<f>>
    ELSE IF StrLeq(f.dst, Head(sorted).dst) THEN <<f>> \o sorted
    ELSE <<Head(sorted)>> \o InsertByDst_before_equal(Tail(sorted), f)

\* Vec::sort_by_key on dst: a stable sort, keys compared as Strings
RECURSIVE InsertByDst(_, _)
InsertByDst(sorted, f) ==
    IF sorted = <<>> THEN <<f>>
    ELSE IF StrLess(f.dst, Head(sorted).dst) THEN <<f>> \o sorted
    ELSE <<Head(sorted)>> \o InsertByDst(Tail(sorted), f)

RECURSIVE SortByDst(_)
SortByDst(files) ==
    IF files = <<>> THEN <<>>
    ELSE InsertByDst(SortByDst(SubSeq(files, 1, Len(files) - 1)), Last(files))

\* the loop of build over the sorted manifest; the first error ends it
RECURSIVE AddFiles(_, _, _)
AddFiles(order, bd, files) ==
    IF files = <<>> THEN Ok(bd)
    ELSE With(Head(files), LAMBDA file :
         With(IF file.mode = NONE THEN DirMode ELSE file.mode, LAMBDA mode :
         With(IF file.dir # NONE THEN add_dir(bd, file.dir, mode)
              ELSE IF Len(file.src) = 0 THEN add_dir(bd, file.dst, mode)
              ELSE add_path(order, bd, file.src, file.dst), LAMBDA r :
             IF r.ok THEN AddFiles(order, r.b, Tail(files)) ELSE r)))

ArchiveAppends_swapped(ar, now, ctrl_buf, data_buf) ==
    append_vec(append_vec(ar, now, "data.tar.gz", data_buf), now, "control.tar.gz", ctrl_buf)

\* the two appends that end a successful build
ArchiveAppends(ar, now, ctrl_buf, data_buf) ==
    append_vec(append_vec(ar, now, "control.tar.gz", ctrl_buf), now, "data.tar.gz", data_buf)

\* File::options().create(true).truncate(true).write(true).open(path)
OpenTruncate(d) == [exists |-> TRUE, stale |-> FALSE, ar |-> ArEmpty]

\* BuildSpec::build as a function of the spec, the disk, the read_dir order
\* and the three clock readings: what it returns, the spec and the file it
\* leaves. Whatever was written to the BufWriter reaches the file when the
\* archive is dropped, on the error returns as on success.
build(s, d, order, now, data_time, ctrl_time) ==
    IF ~validate(s)
    THEN [result |-> "validate", spec |-> s, disk |-> d, name |-> NONE,
          hashes |-> <<>>, size |-> 0, data |-> <<>>, ctrl |-> <<>>]
    ELSE With(OpenTruncate(d), LAMBDA opened :
         With(DebArchive_init(opened.ar, now), LAMBDA ar0 :
         With(SortByDst(s.files), LAMBDA sorted :
         With([s EXCEPT !.files = sorted], LAMBDA s1 :
         With(AddFiles(order, DataBuilder_new(data_time), sorted), LAMBDA r :
         With(IF r.ok THEN control_tarball(s1, ctrl_time, r.b.size, r.b.hashes)
              ELSE [ok |-> FALSE, err |-> r.err, entries |-> <<>>], LAMBDA ct :
             IF ~ct.ok
             THEN [result |-> ct.err, spec |-> s1, disk |-> [opened EXCEPT !.ar = ar0],
                   name |-> filename(s), hashes |-> r.b.hashes, size |-> r.b.size,
                   data |-> r.b.tar, ctrl |-> <<>>]
             ELSE [result |-> "ok", spec |-> s1,
                   disk |-> [opened EXCEPT !.ar = ArchiveAppends(ar0, now, ct.entries, r.b.tar)],
                   name |-> filename(s), hashes |-> r.b.hashes, size |-> r.b.size,
                   data |-> r.b.tar, ctrl |-> ct.entries]))))))

-----------------------------------------------------------------------------
(* Version *)

Digit == {"0", "1", "2", "3", "4", "5", "6", "7", "8", "9"}

\* u32::MAX in decimal
U32Max == <<"4", "2", "9", "4", "9", "6", "7", "2", "9", "5">>

RECURSIVE StripZeros(_)
StripZeros(d) == IF Len(d) > 1 /\ Head(d) = "0" THEN StripZeros(Tail(d)) ELSE d

\* x < y for two numbers written in decimal without leading zeros
NumLess(x, y) == Len(x) < Len(y) \/ (Len(x) = Len(y) /\ StrLess(x, y))

parse_u32_empty_is_zero(t) ==
    IF \E i \in DOMAIN t : t[i] \notin Digit
    THEN [ok |-> FALSE, err |-> "invalid digit", n |-> NONE]
    ELSE [ok |-> TRUE, err |-> NONE, n |-> IF t = <<>> THEN <<"0">> ELSE t]

\* str::parse::<u32>: an optional '+', then one digit or more, no overflow.
\* The number is kept as its decimal digits without leading zeros, which is
\* also what its Display writes.
parse_u32(t) ==
    With(IF t # <<>> /\ Head(t) = "+" THEN Tail(t) ELSE t, LAMBDA digits :
        IF digits = <<>> \/ \E i \in DOMAIN digits : digits[i] \notin Digit
        THEN [ok |-> FALSE, err |-> "invalid digit", n |-> NONE]
        ELSE IF NumLess(U32Max, StripZeros(digits))
        THEN [ok |-> FALSE, err |-> "overflow", n |-> NONE]
        ELSE [ok |-> TRUE, err |-> NONE, n |-> StripZeros(digits)])

\* str::find(char): the index of the first occurrence, None when there is none
find(s, c) ==
    IF \E i \in DOMAIN s : s[i] = c
    THEN Some(CHOOSE i \in DOMAIN s : s[i] = c /\ \A j \in 1..(i-1) : s[j] # c)
    ELSE None

min_latest(x, y) ==
    IF x # None /\ y # None THEN Some(IF x[1] >= y[1] THEN x[1] ELSE y[1])
    ELSE IF x # None THEN x
    ELSE y

\* min on Option<usize>, where None is no candidate
min(x, y) ==
    IF x # None /\ y # None THEN Some(IF x[1] <= y[1] THEN x[1] ELSE y[1])
    ELSE IF x # None THEN x
    ELSE y

\* str::split(char): the pieces between the separators, empty ones included
RECURSIVE split(_, _, _)
split(s, c, cur) ==
    IF s = <<>> THEN <<cur>>
    ELSE IF Head(s) = c THEN <<cur>> \o split(Tail(s), c, <<>>)
    ELSE split(Tail(s), c, Append(cur, Head(s)))

\* value.strip_prefix("v").unwrap_or(value)
strip_prefix(value) == IF value # <<>> /\ Head(value) = "v" THEN Tail(value) ELSE value

Zero == <<"0">>

Version_default ==
    [epoch |-> Zero, major |-> Zero, minor |-> Zero, patch |-> Zero, revision |-> <<>>]

VersionErr(e) == [ok |-> FALSE, err |-> e, v |-> NONE]

\* the loop over the dot-separated sections: the first error ends it
RECURSIVE Sections(_, _, _)
Sections(res, secs, i) ==
    IF i > Len(secs) THEN [ok |-> TRUE, err |-> NONE, v |-> res]
    ELSE With(parse_u32(secs[i]), LAMBDA n :
             IF ~n.ok THEN VersionErr(n.err)
             ELSE IF i = 1 THEN Sections([res EXCEPT !.major = n.n], secs, i + 1)
             ELSE IF i = 2 THEN Sections([res EXCEPT !.minor = n.n], secs, i + 1)
             ELSE IF i = 3 THEN Sections([res EXCEPT !.patch = n.n], secs, i + 1)
             ELSE VersionErr("version has too many sections"))

\* the part of try_from after the epoch
AfterEpoch(res, value) ==
    With(min(find(value, "~"), min(find(value, "+"), find(value, "-"))), LAMBDA ix :
        IF ix = None THEN Sections(res, split(strip_prefix(value), ".", <<>>), 1)
        ELSE Sections([res EXCEPT !.revision = SubSeq(value, ix[1], Len(value))],
                      split(strip_prefix(SubSeq(value, 1, ix[1] - 1)), ".", <<>>), 1))

\* Version::try_from(&str)
try_from(value) ==
    IF value = <<>> THEN VersionErr("empty version value")
    ELSE With(find(value, ":"), LAMBDA colon :
        IF colon = None THEN AfterEpoch(Version_default, value)
        ELSE With(parse_u32(SubSeq(value, 1, colon[1] - 1)), LAMBDA epoch :
                 IF ~epoch.ok THEN VersionErr(epoch.err)
                 ELSE AfterEpoch([Version_default EXCEPT !.epoch = epoch.n],
                                 SubSeq(value, colon[1] + 1, Len(value)))))

to_string_without_patch(v) ==
    v.epoch \o <<":">> \o v.major \o <<".">> \o v.minor \o v.revision

\* Version::to_string
to_string(v) ==
    v.epoch \o <<":">> \o v.major \o <<".">> \o v.minor \o <<".">> \o v.patch \o v.revision

\* u32::cmp and String::cmp
NumCmp(x, y) == IF x = y THEN "Equal" ELSE IF NumLess(x, y) THEN "Less" ELSE "Greater"
StrCmp(x, y) == IF x = y THEN "Equal" ELSE IF StrLess(x, y) THEN "Less" ELSE "Greater"

cmp_numbers_as_text(self, other) ==
    IF self.epoch # other.epoch THEN StrCmp(self.epoch, other.epoch)
    ELSE IF self.major # other.major THEN StrCmp(self.major, other.major)
    ELSE IF self.minor # other.minor THEN StrCmp(self.minor, other.minor)
    ELSE IF self.patch # other.patch THEN StrCmp(self.patch, other.patch)
    ELSE StrCmp(self.revision, other.revision)

\* Ord::cmp for Version
cmp(self, other) ==
    IF NumCmp(self.epoch, other.epoch) # "Equal" THEN NumCmp(self.epoch, other.epoch)
    ELSE IF NumCmp(self.major, other.major) # "Equal" THEN NumCmp(self.major, other.major)
    ELSE IF NumCmp(self.minor, other.minor) # "Equal" THEN NumCmp(self.minor, other.minor)
    ELSE IF NumCmp(self.patch, other.patch) # "Equal" THEN NumCmp(self.patch, other.patch)
    ELSE StrCmp(self.revision, other.revision)

\* PartialOrd::partial_cmp for Version: the same loop, wrapped in Some
partial_cmp(self, other) ==
    IF NumCmp(self.epoch, other.epoch) # "Equal" THEN Some(NumCmp(self.epoch, other.epoch))
    ELSE IF NumCmp(self.major, other.major) # "Equal" THEN Some(NumCmp(self.major, other.major))
    ELSE IF NumCmp(self.minor, other.minor) # "Equal" THEN Some(NumCmp(self.minor, other.minor))
    ELSE IF NumCmp(self.patch, other.patch) # "Equal" THEN Some(NumCmp(self.patch, other.patch))
    ELSE Some(StrCmp(self.revision, other.revision))

\* the derived PartialEq: field by field
eq(self, other) ==
    /\ self.epoch = other.epoch /\ self.major = other.major /\ self.minor = other.minor
    /\ self.patch = other.patch /\ self.revision = other.revision

-----------------------------------------------------------------------------
(* Inputs *)

\* the clock readings (seconds) a build may see: two values tell a clock that
\* stood still from one that advanced
Clock == {1, 2}

File_new(src, dst) == [src |-> src, dst |-> dst, mode |-> NONE, dir |-> NONE]

\* manifest entries a BuildSpec may hold: regular files with destinations
\* written with and without a leading '/', two files with one and the same
\* destination, a directory, a FIFO, a file whose read fails, and a
\* directory marker (empty src)
FileCatalog ==
    { File_new(<<"f">>, <<"/", "b", "/", "x">>),
      File_new(<<"g">>, <<"a", "/", "y">>),
      File_new(<<"g">>, <<"/", "b", "/", "x">>),
      File_new(<<"d">>, <<"/", "a", "/", "d">>),
      File_new(<<"p">>, <<"/", "a", "/", "x">>),
      File_new(<<"e">>, <<"/", "c">>),
      File_new(<<>>, <<"/", "a", "/", "c">>) }

\* the manifests: up to MaxFiles distinct entries, in any order
Manifests ==
    UNION {{m \in [1..n -> FileCatalog] : \A i, j \in 1..n : m[i] = m[j] => i = j} :
           n \in 0..MaxFiles}

\* the add_path calls made on the directly driven DataBuilder
AddCalls ==
    { <<<<"f">>, <<"/", "a", "/", "x">>>>,
      <<<<"g">>, <<"a", "/", "y">>>>,
      <<<<"f">>, <<"/", "a", "/", "b", "/", "z">>>>,
      <<<<"g">>, <<"b">>>>,
      <<<<"e">>, <<"/", "a", "/", "x">>>>,
      <<<<"l">>, <<"a", "/", "y">>>>,
      <<<<"k">>, <<"b">>>>,
      <<<<"p">>, <<"/", "a", "/", "x">>>>,
      <<<<"x">>, <<"b">>>>,
      <<<<"d">>, <<"/", "a", "/", "b">>>>,
      <<<<"d">>, <<"c">>>>,
      <<<<"n">>, <<"b">>>> }

FsOrders == {o \in [Dirs -> UNION {Orders(FS[n].children) : n \in Dirs}] :
                \A n \in Dirs : o[n] \in Orders(FS[n].children)}

DefaultSpec ==
    [package |-> "pkg", version |-> "1.0", buildno |-> None, arch |-> "all",
     section |-> NONE, priority |-> "optional", urgency |-> NONE, homepage |-> NONE,
     essential |-> FALSE, dependencies |-> <<>>, description |-> NONE,
     recommends |-> None, suggests |-> None,
     maintainer |-> NONE, author |-> NONE, email |-> NONE, files |-> <<>>,
     apt_sources |-> None, scripts |-> None]

NoBuild ==
    [result |-> NONE, name |-> NONE, hashes |-> <<>>, size |-> 0, data |-> <<>>,
     ctrl |-> <<>>, given |-> <<>>]

NoDisk == [exists |-> FALSE, stale |-> FALSE, ar |-> ArEmpty]
StaleDisk == [exists |-> TRUE, stale |-> TRUE, ar |-> ArEmpty]

NoCall == [fn |-> NONE]

NoText == [str |-> <<>>]

NoProject == [build |-> <<>>]

NoAdd == [source |-> NONE, dest |-> NONE, ok |-> TRUE, err |-> NONE, before |-> NONE]

-----------------------------------------------------------------------------
(* BuildSpec::build on a spec, a destination and a file system *)

Init ==
    /\ fsOrder \in FsOrders
    /\ \E m \in {NONE, "m"}, a \in {NONE, "a"}, e \in {NONE, "e@x"}, fl \in Manifests :
         spec = [DefaultSpec EXCEPT !.maintainer = m, !.author = a, !.email = e,
                                    !.files = fl]
    /\ disk \in {NoDisk, StaleDisk}
    /\ out = NoBuild
    /\ b = DataBuilder_new(1)
    /\ calls = 0
    /\ lastAdd = NoAdd
    /\ ret = NoCall
    /\ vtext = NoText
    /\ project = NoProject

Build(now, data_time, ctrl_time) ==
    /\ out.result = NONE
    /\ \E r \in {build(spec, disk, fsOrder, now, data_time, ctrl_time)} :
           /\ spec' = r.spec
           /\ disk' = r.disk
           /\ out' = [result |-> r.result, name |-> r.name, hashes |-> r.hashes,
                      size |-> r.size, data |-> r.data, ctrl |-> r.ctrl,
                      given |-> spec.files]
    /\ UNCHANGED <<fsOrder, b, calls, lastAdd, ret, vtext, project>>

Next ==
    \E now \in Clock, data_time \in Clock, ctrl_time \in Clock :
        /\ now <= data_time
        /\ data_time <= ctrl_time
        /\ Build(now, data_time, ctrl_time)

Spec == Init /\ [][Next]_vars

-----------------------------------------------------------------------------
(* A DataBuilder driven directly, as tests::data_builder drives it *)

InitBuilder ==
    /\ fsOrder \in FsOrders
    /\ spec = DefaultSpec
    /\ disk = NoDisk
    /\ out = NoBuild
    /\ b = DataBuilder_new(1)
    /\ calls = 0
    /\ lastAdd = NoAdd
    /\ ret = NoCall
    /\ vtext = NoText
    /\ project = NoProject

AddPath(source, dest) ==
    /\ calls < MaxAdds
    /\ \E r \in {add_path(fsOrder, b, source, dest)} :
           /\ b' = r.b
           /\ lastAdd' = [source |-> source, dest |-> dest, ok |-> r.ok, err |-> r.err,
                          before |-> b]
    /\ calls' = calls + 1
    /\ UNCHANGED <<fsOrder, spec, disk, out, ret, vtext, project>>

NextBuilder == \E c \in AddCalls : AddPath(c[1], c[2])

SpecBuilder == InitBuilder /\ [][NextBuilder]_vars

-----------------------------------------------------------------------------
(* The payload of build, run again over the same manifest and file system *)

Runs == 2

PayloadRuns == IF ret.fn = "payload" THEN ret.runs ELSE <<>>

InitPayload ==
    /\ fsOrder \in FsOrders
    /\ \E fl \in Manifests : spec = [DefaultSpec EXCEPT !.maintainer = "m", !.files = fl]
    /\ disk = NoDisk
    /\ out = NoBuild
    /\ b = DataBuilder_new(1)
    /\ calls = 0
    /\ lastAdd = NoAdd
    /\ ret = NoCall
    /\ vtext = NoText
    /\ project = NoProject

\* one run of the payload block of build: a new DataBuilder at the clock's
\* reading, the manifest sorted in place, every entry added until the first
\* error. The files stay as they are; the order in which read_dir will list
\* the directories at the next run is the file system's to choose.
Payload(time) ==
    /\ Len(PayloadRuns) < Runs
    /\ \E sorted \in {SortByDst(spec.files)} :
       \E r \in {AddFiles(fsOrder, DataBuilder_new(time), sorted)} :
           /\ spec' = [spec EXCEPT !.files = sorted]
           /\ ret' = [fn |-> "payload",
                      runs |-> Append(PayloadRuns,
                                      [time |-> time, ok |-> r.ok, err |-> r.err,
                                       tar |-> r.b.tar, hashes |-> r.b.hashes,
                                       size |-> r.b.size])]
    /\ fsOrder' \in FsOrders
    /\ UNCHANGED <<b, calls, lastAdd, disk, out, vtext, project>>

NextPayload == \E time \in Clock : Payload(time)

SpecPayload == InitPayload /\ [][NextPayload]_vars

-----------------------------------------------------------------------------
(* generate_control and filename, called on a BuildSpec *)

\* 2^53, the first u64 whose successor is not a value of f64
Pow53 == AddAt(U64(0), 6, 8)

\* install sizes: nothing, around one and two KiB, and around the values
\* where f64 stops holding every whole number, up to u64::MAX
InstallSizes ==
    { U64(0), U64(1), U64(1023), U64(1024), U64(1025), U64(2048), U64(2049),
      AddAt(Pow53, 1, 1023), Pow53, AddAt(Pow53, 1, 1), AddAt(Pow53, 1, 2),
      AddAt(Pow53, 1, 3), AddAt(AddAt(U64(0), 7, 8), 1, 1),
      [i \in 1..7 |-> IF i = 7 THEN 15 ELSE KiB - 1] }

\* the BuildSpecs: every combination of maintainer, author and email, of
\* the optional fields set and unset, of the lists absent, empty and filled
ControlSpecs ==
    { [DefaultSpec EXCEPT !.maintainer = m[1], !.author = m[2], !.email = m[3],
                          !.buildno = o[1], !.section = o[2], !.urgency = o[3],
                          !.homepage = o[4], !.essential = o[5],
                          !.dependencies = l[1], !.description = l[2],
                          !.recommends = l[3], !.suggests = l[4]] :
        m \in {NONE, "m"} \X {NONE, "a"} \X {NONE, "e@x"},
        o \in {None, Some(0), Some(2)} \X {NONE, "net"} \X {NONE, "low"}
              \X {NONE, "h"} \X BOOLEAN,
        l \in {<<>>, <<"a", "b">>} \X {NONE, "d"} \X {None, Some(<<>>), Some(<<"r">>)}
              \X {None, Some(<<>>), Some(<<"s">>)} }

\* no directory is read by these methods: one listing order stands for all
AnyOrder == CHOOSE o \in FsOrders : TRUE

InitControl ==
    /\ fsOrder = AnyOrder
    /\ spec \in ControlSpecs
    /\ disk = NoDisk
    /\ out = NoBuild
    /\ b = DataBuilder_new(1)
    /\ calls = 0
    /\ lastAdd = NoAdd
    /\ ret = NoCall
    /\ vtext = NoText
    /\ project = NoProject

GenerateControl(install_size) ==
    /\ ret.fn = NONE
    /\ \E r \in {generate_control(spec, install_size)} :
           ret' = [fn |-> "generate_control", install_size |-> install_size,
                   ok |-> r.ok, err |-> r.err, lines |-> r.lines]
    /\ UNCHANGED <<fsOrder, b, calls, lastAdd, spec, disk, out, vtext, project>>

Filename ==
    /\ ret.fn = NONE
    /\ ret' = [fn |-> "filename", name |-> filename(spec)]
    /\ UNCHANGED <<fsOrder, b, calls, lastAdd, spec, disk, out, vtext, project>>

NextControl == Filename \/ \E n \in InstallSizes : GenerateControl(n)

SpecControl == InitControl /\ [][NextControl]_vars

-----------------------------------------------------------------------------
(* control_tarball, called on a BuildSpec *)

Script == <<" ", "x", "\n">>

AptSource(name) ==
    [name |-> name, url |-> "u", components |-> "main", gpg_key_url |-> "k"]

\* scripts absent, or any of the four set; apt_sources absent, empty, or
\* with one or two sources; with and without the fields Maintainer needs
TarballSpecs ==
    { [DefaultSpec EXCEPT !.maintainer = m, !.apt_sources = a, !.scripts = sc] :
        m \in {NONE, "m"},
        a \in {None, Some(<<>>), Some(<<AptSource("s")>>),
               Some(<<AptSource("s"), AptSource("t")>>)},
        sc \in {None} \cup
               {Some([preinst |-> p[1], postinst |-> p[2], prerm |-> p[3], postrm |-> p[4]]) :
                  p \in {None, Some(Script)} \X {None, Some(Script)}
                        \X {None, Some(Script)} \X {None, Some(Script)}} }

HashLists == {<<>>, << <<Md5(<<1, 2>>), <<"a", "/", "y">>>> >>}

InitTarball ==
    /\ fsOrder = AnyOrder
    /\ spec \in TarballSpecs
    /\ disk = NoDisk
    /\ out = NoBuild
    /\ b = DataBuilder_new(1)
    /\ calls = 0
    /\ lastAdd = NoAdd
    /\ ret = NoCall
    /\ vtext = NoText
    /\ project = NoProject

ControlTarball(now, hashes) ==
    /\ ret.fn = NONE
    /\ \E r \in {control_tarball(spec, now, 2 * Len(hashes), hashes)} :
           ret' = [fn |-> "control_tarball", now |-> now, ok |-> r.ok, err |-> r.err,
                   entries |-> r.entries]
    /\ UNCHANGED <<fsOrder, b, calls, lastAdd, spec, disk, out, vtext, project>>

NextTarball == \E now \in Clock, hashes \in HashLists : ControlTarball(now, hashes)

SpecTarball == InitTarball /\ [][NextTarball]_vars

-----------------------------------------------------------------------------
(* pre_process, called on a BuildSpec *)

\* manifest entries as the configuration yields them: with a destination,
\* without one, and with sources that are a plain name, a path, a path with
\* a trailing '/', "..", "/" and the empty string
PreCatalog ==
    { File_new(<<"a">>, <<"/", "a">>),
      File_new(<<"x">>, <<>>),
      File_new(<<"a", "/", "b">>, <<>>),
      File_new(<<"a", "/">>, <<>>),
      File_new(<<".", ".">>, <<>>),
      File_new(<<"/">>, <<>>),
      File_new(<<>>, <<>>),
      File_new(<<>>, <<"d">>) }

PreManifests == UNION {[1..n -> PreCatalog] : n \in 0..MaxFiles}

\* files_base: absent, absolute, relative with a trailing '/', and empty
Bases == {None, Some(<<"/", "u", "/", "s">>), Some(<<"u", "/">>), Some(<<>>)}

InitPre ==
    /\ fsOrder = AnyOrder
    /\ \E fl \in PreManifests : spec = [DefaultSpec EXCEPT !.maintainer = "m", !.files = fl]
    /\ disk = NoDisk
    /\ out = NoBuild
    /\ b = DataBuilder_new(1)
    /\ calls = 0
    /\ lastAdd = NoAdd
    /\ ret = NoCall
    /\ vtext = NoText
    /\ project = NoProject

PreProcess(base) ==
    /\ ret.fn = NONE
    /\ spec' = pre_process(spec, base)
    /\ ret' = [fn |-> "pre_process", base |-> base, before |-> spec.files]
    /\ UNCHANGED <<fsOrder, b, calls, lastAdd, disk, out, vtext, project>>

NextPre == \E base \in Bases : PreProcess(base)

SpecPre == InitPre /\ [][NextPre]_vars

-----------------------------------------------------------------------------
(* Version::try_from, to_string and cmp, called on version strings *)

\* the text before ':': none, a number, a number with leading zero or sign,
\* a letter, nothing, and u32::MAX + 1
EpochTexts ==
    { None, Some(<<"4">>), Some(<<"0", "4">>), Some(<<"+", "4">>), Some(<<"a">>),
      Some(<<>>), Some(<<"4", "2", "9", "4", "9", "6", "7", "2", "9", "6">>) }

PrefixTexts == {<<>>, <<"v">>, <<"V">>}

\* the dot-separated sections: one to four numbers, leading zeros, an empty
\* section (alone, inside, trailing), a letter, u32::MAX and u32::MAX + 1
UpstreamTexts ==
    { << <<"1">> >>, << <<"1", "0">> >>, << <<"1">>, <<"2", "2">> >>,
      << <<"3">>, <<"2">>, <<"1">> >>, << <<"1">>, <<"2">>, <<"3">>, <<"4">> >>,
      << <<"0", "0", "7">>, <<"0">> >>, << <<>> >>, << <<"1">>, <<>>, <<"2">> >>,
      << <<"1">>, <<>> >>, << <<"a">> >>, << <<"1">>, <<"a">> >>,
      << U32Max >>, << <<"4", "2", "9", "4", "9", "6", "7", "2", "9", "6">> >> }

\* revisions: none, and ones that start with each delimiter and hold others
RevisionTexts ==
    { <<>>, <<"-", "1">>, <<"~", "a", "+", "1", "-", "0">>, <<"+", "a", ".", "1">>,
      <<"-">> }

RECURSIVE JoinDots(_)
JoinDots(secs) ==
    IF Len(secs) = 1 THEN secs[1] ELSE secs[1] \o <<".">> \o JoinDots(Tail(secs))

\* a version string, with the parts it was written of
VersionText(epoch, prefix, upstream, rev) ==
    [epoch |-> epoch, prefix |-> prefix, upstream |-> upstream, rev |-> rev,
     str |-> (IF epoch = None THEN <<>> ELSE epoch[1] \o <<":">>)
             \o prefix \o JoinDots(upstream) \o rev]

VersionTexts ==
    { VersionText(p[1], p[2], p[3], p[4]) :
        p \in EpochTexts \X PrefixTexts \X UpstreamTexts \X RevisionTexts }

\* the strings the versions compared with the first are parsed of
CmpTexts ==
    { <<"1", ".", "2", ".", "3">>, <<"1", ":", "0">>, <<"1", ".", "1", "0">>,
      <<"1", ".", "9">>, <<"1", ".", "2", ".", "3", "-", "1">>,
      <<"1", ".", "2", ".", "3", "-", "a">>, <<"1", ".", "2", ".", "3", "~", "1">>,
      U32Max }

InitVersion ==
    /\ fsOrder = AnyOrder
    /\ spec = DefaultSpec
    /\ disk = NoDisk
    /\ out = NoBuild
    /\ b = DataBuilder_new(1)
    /\ calls = 0
    /\ lastAdd = NoAdd
    /\ ret = NoCall
    /\ vtext \in VersionTexts
    /\ project = NoProject

TryFrom ==
    /\ ret.fn = NONE
    /\ \E r \in {try_from(vtext.str)} :
           ret' = [fn |-> "try_from", ok |-> r.ok, err |-> r.err, v |-> r.v]
    /\ UNCHANGED <<fsOrder, b, calls, lastAdd, spec, disk, out, vtext, project>>

\* parse, write with to_string, parse what was written
Reparse ==
    /\ ret.fn = NONE
    /\ \E r \in {try_from(vtext.str)} :
           /\ r.ok
           /\ \E r2 \in {try_from(to_string(r.v))} :
                 ret' = [fn |-> "to_string", v |-> r.v, string |-> to_string(r.v),
                         ok |-> r2.ok, again |-> r2.v]
    /\ UNCHANGED <<fsOrder, b, calls, lastAdd, spec, disk, out, vtext, project>>

\* three parsed versions compared with each other, in every pairing
Compare(t2, t3) ==
    /\ ret.fn = NONE
    /\ \E r \in {try_from(vtext.str)} :
           /\ r.ok
           /\ \E vs \in {<<r.v, try_from(t2).v, try_from(t3).v>>} :
                 ret' = [fn |-> "cmp", vs |-> vs,
                         cmp |-> [i \in 1..3 |-> [j \in 1..3 |-> cmp(vs[i], vs[j])]],
                         partial_cmp |-> [i \in 1..3 |-> [j \in 1..3 |->
                                            partial_cmp(vs[i], vs[j])]],
                         eq |-> [i \in 1..3 |-> [j \in 1..3 |-> eq(vs[i], vs[j])]]]
    /\ UNCHANGED <<fsOrder, b, calls, lastAdd, spec, disk, out, vtext, project>>

NextVersion == TryFrom \/ Reparse \/ \E t2, t3 \in CmpTexts : Compare(t2, t3)

SpecVersion == InitVersion /\ [][NextVersion]_vars

-----------------------------------------------------------------------------
(* Properties of DataBuilder, checked under SpecBuilder *)

Range(q) == {q[i] : i \in DOMAIN q}
Indices(q, type) == {i \in DOMAIN q : q[i].type = type}
Paths(q) == [i \in DOMAIN q |-> q[i].path]

\* the entries the last add_path call appended to the tar stream
Added == SubSeq(b.tar, Len(lastAdd.before.tar) + 1, Len(b.tar))
AddedHashes == SubSeq(b.hashes, Len(lastAdd.before.hashes) + 1, Len(b.hashes))

\* a destination as it appears in the archive: without its leading '/'
Relative(dst) == IF dst # <<>> /\ Head(dst) = "/" THEN Tail(dst) ELSE dst

SourceIsSymlink(source) ==
    \E n \in TopLevel : FS[n].name = source /\ FS[n].kind = "symlink"

\* C4 (as claimed): add_path on a source that is a symbolic link returns an
\* unsupported-file-type error and adds no tar entry, no HashRecord and
\* nothing to size.
C4_SymlinkSourceRejected ==
    (calls > 0 /\ SourceIsSymlink(lastAdd.source)) =>
        /\ ~lastAdd.ok
        /\ lastAdd.err = "unsupported"
        /\ b.tar = lastAdd.before.tar
        /\ b.hashes = lastAdd.before.hashes
        /\ b.size = lastAdd.before.size

\* the directory entries a path needs: every proper prefix that ends before
\* a '/', written with its trailing '/'
AncestorDirs(path) == {SubSeq(path, 1, k) : k \in {i \in 2..Len(path) : path[i] = "/"}}

\* C6: each ancestor directory of an added regular file has exactly one
\* directory entry in the tar stream, and that entry comes before the file;
\* no directory is entered twice, however many files share it.
C6_DirectoriesOnceBeforeFiles ==
    /\ \A i, j \in Indices(b.tar, "dir") : b.tar[i].path = b.tar[j].path => i = j
    /\ \A j \in Indices(b.tar, "file") : \A a \in AncestorDirs(b.tar[j].path) :
          \E i \in Indices(b.tar, "dir") : i < j /\ b.tar[i].path = a

\* two regular files under the same directory were added by separate calls
C6_Witness ==
    /\ calls = 2 /\ lastAdd.ok
    /\ \E i \in Indices(lastAdd.before.tar, "file"), j \in Indices(Added, "file") :
          AncestorDirs(lastAdd.before.tar[i].path) \cap AncestorDirs(Added[j].path) # {}

\* C29 (as claimed): every entry add_path has emitted, regular file or
\* symlink, comes after a directory entry for each of its ancestor
\* directories.
C29_AncestorsBeforeEveryEntry ==
    \A j \in Indices(b.tar, "file") \cup Indices(b.tar, "symlink") :
        \A a \in AncestorDirs(b.tar[j].path) :
            \E i \in Indices(b.tar, "dir") : i < j /\ b.tar[i].path = a

RECURSIVE SumSizes(_)
SumSizes(q) == IF q = <<>> THEN 0 ELSE Len(Head(q).data) + SumSizes(Tail(q))

FileEntries(q) == SelectSeq(q, LAMBDA e : e.type = "file")

\* C8: size() is the sum of the byte counts of the regular files that have a
\* HashRecord: the file entries of the tar stream are exactly the paths of
\* the HashRecords, and directory and symlink entries add nothing.
C8_SizeIsSumOfHashedFiles ==
    /\ Paths(FileEntries(b.tar)) = [i \in DOMAIN b.hashes |-> b.hashes[i][2]]
    /\ b.size = SumSizes(FileEntries(b.tar))

\* two successful calls, one of them a directory with a symlink inside
C8_Witness ==
    /\ calls = 2 /\ lastAdd.ok /\ b.size > 3
    /\ Indices(b.tar, "symlink") # {} /\ Indices(b.tar, "dir") # {}
    /\ Len(b.hashes) >= 3

NoFailedRead == Indices(b.tar, "truncated") = {}

RECURSIVE Beneath(_, _)
Beneath(dir, rel) ==
    UNION {IF FS[n].kind = "dir" THEN Beneath(n, rel \o FS[n].name \o <<"/">>)
           ELSE {[rel |-> rel \o FS[n].name, kind |-> FS[n].kind]} :
           n \in FS[dir].children}

DirSource(source) == \E n \in TopLevel : FS[n].name = source /\ FS[n].kind = "dir"

Count(q, path, type) == Cardinality({i \in DOMAIN q : q[i].path = path /\ q[i].type = type})

\* C10: a successful add_path(source, dst) of a directory adds, for every
\* regular file beneath source, one file entry and one HashRecord at dst
\* joined with the file's relative path, and for every symlink beneath it
\* one symlink entry of size 0 and no HashRecord; it adds no other file,
\* symlink or HashRecord.
C10_DirectorySourceAddsAllBeneath ==
    (calls > 0 /\ lastAdd.ok /\ DirSource(lastAdd.source)) =>
        LET under == Beneath(Lookup(lastAdd.source), <<>>)
            at(e) == Relative(lastAdd.dest) \o <<"/">> \o e.rel
            hashed == {AddedHashes[i][2] : i \in DOMAIN AddedHashes}
        IN  /\ \A e \in under :
                  /\ e.kind = "file" =>
                        /\ Count(Added, at(e), "file") = 1
                        /\ Cardinality({i \in DOMAIN AddedHashes : AddedHashes[i][2] = at(e)}) = 1
                  /\ e.kind = "symlink" =>
                        /\ Count(Added, at(e), "symlink") = 1
                        /\ \A i \in DOMAIN Added : Added[i].path = at(e) => Added[i].size = 0
                        /\ at(e) \notin hashed
            /\ Len(FileEntries(Added)) = Cardinality({e \in under : e.kind = "file"})
            /\ Len(AddedHashes) = Cardinality({e \in under : e.kind = "file"})
            /\ Cardinality(Indices(Added, "symlink")) = Cardinality({e \in under : e.kind = "symlink"})

\* a directory with a nested file and a nested symlink was added to a builder
\* that already held entries
C10_Witness ==
    /\ calls = 2 /\ lastAdd.ok /\ DirSource(lastAdd.source)
    /\ lastAdd.before.tar # <<>>
    /\ \E e \in Beneath(Lookup(lastAdd.source), <<>>) : e.kind = "symlink" /\ Len(e.rel) > 1
    /\ \E e \in Beneath(Lookup(lastAdd.source), <<>>) : e.kind = "file" /\ Len(e.rel) > 1

Special(kind) == kind \notin {"file", "dir", "symlink"}

\* the source of the last call is, or holds at some depth, an entry that is
\* neither a regular file, a directory nor a symlink
MeetsSpecial(source) ==
    With(Stat(source), LAMBDA stat :
        /\ stat.ok
        /\ \/ Special(stat.kind)
           \/ stat.kind = "dir" /\ \E e \in Beneath(stat.node, <<>>) : Special(e.kind))

\* C11 (as claimed): add_path returns an error whenever it meets an entry
\* that is neither a regular file, a directory nor a symlink, as the source
\* itself or inside a walked directory source.
C11_SpecialEntryIsAnError ==
    (calls > 0 /\ MeetsSpecial(lastAdd.source)) => ~lastAdd.ok

-----------------------------------------------------------------------------
(* Properties of generate_control and filename, checked under SpecControl *)

Generated == ret.fn = "generate_control"

Keys(lines) == [i \in DOMAIN lines |-> lines[i][1]]
ValuesOf(lines, key) == {lines[i][2] : i \in {j \in DOMAIN lines : lines[j][1] = key}}
HowMany(lines, key) == Cardinality({j \in DOMAIN lines : lines[j][1] = key})

\* C12: generate_control writes exactly one Maintainer line, whose value is
\* the maintainer field if set, else "author <email>" if both are set, else
\* the one of author and email that is set; if all three are absent it
\* returns an error and has written no Maintainer line.
C12_MaintainerResolution ==
    Generated =>
        IF spec.maintainer = NONE /\ spec.author = NONE /\ spec.email = NONE
        THEN ~ret.ok /\ HowMany(ret.lines, "Maintainer") = 0
        ELSE /\ ret.ok
             /\ HowMany(ret.lines, "Maintainer") = 1
             /\ ValuesOf(ret.lines, "Maintainer") =
                  { IF spec.maintainer # NONE THEN <<spec.maintainer>>
                    ELSE IF spec.author # NONE /\ spec.email # NONE
                         THEN <<spec.author, " <", spec.email, ">">>
                    ELSE IF spec.author # NONE THEN <<spec.author>>
                    ELSE <<spec.email>> }

\* a control file was generated for a spec with maintainer, author and email
\* all set
C12_Witness ==
    /\ Generated /\ ret.ok
    /\ spec.maintainer # NONE /\ spec.author # NONE /\ spec.email # NONE

KeyOrder ==
    << "Package", "Version", "Section", "Priority", "Architecture", "Maintainer",
       "Urgency", "Installed-Size", "Homepage", "Essential", "Depends",
       "Description", "Recommends", "Suggests" >>

Position(key) == CHOOSE i \in DOMAIN KeyOrder : KeyOrder[i] = key

\* when each key after Maintainer is to be present
Wanted(key) ==
    CASE key = "Urgency"        -> spec.urgency # NONE
      [] key = "Installed-Size" -> ret.install_size # U64(0)
      [] key = "Homepage"       -> spec.homepage # NONE
      [] key = "Essential"      -> spec.essential
      [] key = "Depends"        -> spec.dependencies # <<>>
      [] key = "Description"    -> spec.description # NONE
      [] key = "Recommends"     -> spec.recommends \notin {None, Some(<<>>)}
      [] key = "Suggests"       -> spec.suggests \notin {None, Some(<<>>)}

\* C13: the keys generate_control writes are keys of the fixed list and
\* appear in its order, none twice; in a control file it returns
\* successfully the first six are present, Section being misc by default,
\* and each later key is present exactly when its value is set, true,
\* non-empty or (Installed-Size) greater than 0.
C13_KeyOrderAndPresence ==
    Generated =>
        /\ \A i \in DOMAIN ret.lines : \E k \in DOMAIN KeyOrder : KeyOrder[k] = ret.lines[i][1]
        /\ \A i, j \in DOMAIN ret.lines :
              i < j => Position(ret.lines[i][1]) < Position(ret.lines[j][1])
        /\ ret.ok =>
              /\ \A k \in 1..6 : HowMany(ret.lines, KeyOrder[k]) = 1
              /\ \A k \in 7..Len(KeyOrder) :
                    HowMany(ret.lines, KeyOrder[k]) = IF Wanted(KeyOrder[k]) THEN 1 ELSE 0
              /\ spec.section = NONE => ValuesOf(ret.lines, "Section") = {"misc"}
              /\ spec.section # NONE => ValuesOf(ret.lines, "Section") = {spec.section}

\* a control file with all fourteen keys was generated
C13_Witness == Generated /\ ret.ok /\ Keys(ret.lines) = KeyOrder

\* install_size / 1024 rounded up, in whole numbers
CeilKiB(v) == IF v[1] = 0 THEN Tail(v) \o <<0>> ELSE AddAt(Tail(v) \o <<0>>, 1, 1)

\* C14 (as claimed): generate_control writes an Installed-Size line if and
\* only if install_size > 0, and its value is install_size / 1024 rounded up
\* to the next whole number.
C14_InstalledSizeRoundedUp ==
    (Generated /\ ret.ok) =>
        IF ret.install_size = U64(0)
        THEN HowMany(ret.lines, "Installed-Size") = 0
        ELSE /\ HowMany(ret.lines, "Installed-Size") = 1
             /\ ValuesOf(ret.lines, "Installed-Size") = {CeilKiB(ret.install_size)}

\* C20: filename is package, "-v", version, "_", arch, ".deb", where version
\* is the raw version string, followed by "-" and buildno if and only if
\* buildno is set and greater than 0.
C20_Filename ==
    ret.fn = "filename" =>
        ret.name = <<spec.package, "-v", spec.version>>
                   \o (IF spec.buildno \notin {None, Some(0)}
                       THEN <<"-", spec.buildno[1]>> ELSE <<>>)
                   \o <<"_", spec.arch, ".deb">>

\* filename was called on a spec whose buildno is Some(0)
C20_Witness == ret.fn = "filename" /\ spec.buildno = Some(0) /\ Len(ret.name) = 6

-----------------------------------------------------------------------------
(* Properties of control_tarball, checked under SpecTarball *)

EntryNames(entries) == [i \in DOMAIN entries |-> entries[i].head.path]

\* the names of the scripts that are set, in the order of the claim
SetScripts(scripts) ==
    (IF scripts.preinst # None THEN <<"preinst">> ELSE <<>>)
    \o (IF scripts.postinst # None THEN <<"postinst">> ELSE <<>>)
    \o (IF scripts.prerm # None THEN <<"prerm">> ELSE <<>>)
    \o (IF scripts.postrm # None THEN <<"postrm">> ELSE <<>>)

\* C15: the entries of the control tar are control, md5sums, then, if
\* apt_sources is set, a generated preinst and a generated postrm and
\* nothing of the explicit scripts, even when scripts is set too; otherwise
\* those of preinst, postinst, prerm, postrm that are set, in that order.
C15_ControlTarEntries ==
    (ret.fn = "control_tarball" /\ ret.ok) =>
        /\ EntryNames(ret.entries) =
              <<"control", "md5sums">>
              \o (IF spec.apt_sources # None THEN <<"preinst", "postrm">>
                  ELSE IF spec.scripts # None THEN SetScripts(spec.scripts[1])
                  ELSE <<>>)
        /\ \A i \in 3..Len(ret.entries) :
              IF spec.apt_sources # None
              THEN Head(ret.entries[i].data) \in
                      {"#!/bin/sh\nset -eu\nmkdir -p /usr/share/keyrings/\n",
                       "#!/bin/sh\nset -eu\n"}
              ELSE ret.entries[i].data = <<"x">>

\* a control tar was written for a spec with both apt_sources and all four
\* scripts set
C15_Witness ==
    /\ ret.fn = "control_tarball" /\ ret.ok
    /\ spec.apt_sources # None /\ spec.scripts # None
    /\ SetScripts(spec.scripts[1]) = <<"preinst", "postinst", "prerm", "postrm">>

\* C28 (as claimed): for every entry control_tarball writes, the size in
\* the entry's header is the number of content bytes written for it, for
\* script bodies with leading or trailing whitespace too.
C28_HeaderSizeIsBytesWritten ==
    (ret.fn = "control_tarball" /\ ret.ok) =>
        \A i \in DOMAIN ret.entries :
            ret.entries[i].head.size = Len(ret.entries[i].data)

-----------------------------------------------------------------------------
(* Properties of pre_process, checked under SpecPre *)

PreProcessed == ret.fn = "pre_process"

\* C17 (as claimed): after pre_process(base) returns, for every base, given
\* or absent, and every manifest, every file entry has a non-empty dst.
C17_NoEmptyDstAfterPreProcess ==
    PreProcessed => \A i \in DOMAIN spec.files : spec.files[i].dst # <<>>

\* the text after the last '/' of a path, a trailing '/' set aside
FinalPiece(src) ==
    With(SelectSeq(Split(src, <<>>), LAMBDA c : c # <<>>), LAMBDA pieces :
        IF pieces = <<>> THEN <<>> ELSE Last(pieces))

\* C18 (as claimed): pre_process(base) sets the dst of each entry whose dst
\* is empty to base joined with the file name of src when base is given and
\* to src when base is absent; every non-empty dst and every src is left
\* unchanged, and so are the order and the number of entries.
C18_PreProcessFillsEmptyDst ==
    PreProcessed =>
        /\ Len(spec.files) = Len(ret.before)
        /\ \A i \in DOMAIN ret.before :
              /\ spec.files[i].src = ret.before[i].src
              /\ spec.files[i].mode = ret.before[i].mode
              /\ spec.files[i].dir = ret.before[i].dir
              /\ ret.before[i].dst # <<>> => spec.files[i].dst = ret.before[i].dst
              /\ (ret.before[i].dst = <<>> /\ ret.base = None) =>
                    spec.files[i].dst = ret.before[i].src
              /\ (ret.before[i].dst = <<>> /\ ret.base # None) =>
                    spec.files[i].dst = Join(ret.base[1], FinalPiece(ret.before[i].src))

-----------------------------------------------------------------------------
(* Project: the build number kept in buildno.txt *)

MaxCalls == 4

\* Project::base_dir as Project::new sets it
base_dir == <<"/", "u", "s", "r">>

\* get_build: the number in buildno.txt, which is created with 0 when missing
get_build(file) ==
    IF file = None THEN [file |-> Some(0), n |-> 0] ELSE [file |-> file, n |-> file[1]]

\* init_build_no
init_build_no(p) ==
    With(get_build(p.file), LAMBDA g : [p EXCEPT !.file = g.file, !.build = Some(g.n)])

\* increment_build_no: buildno.txt is created with 0 when missing, else the
\* number in it is raised by one; the Project itself is not written to
increment_build_no(file) == IF file = None THEN Some(0) ELSE Some(file[1] + 1)

\* set_build: a missing buildno.txt is created and self.build is left alone
set_build(p, n) ==
    IF p.file = None THEN [p EXCEPT !.file = Some(n)]
    ELSE [p EXCEPT !.file = Some(n), !.build = Some(n)]

\* buildno.txt before the Project is made: missing, or left by earlier runs
InitProject ==
    /\ fsOrder = AnyOrder
    /\ \E m \in {NONE, "m"},
          fl \in {<<>>, <<File_new(<<"f">>, <<>>)>>, <<File_new(<<"g">>, <<"/", "b", "/", "x">>)>>} :
          spec = [DefaultSpec EXCEPT !.maintainer = m, !.files = fl]
    /\ disk = NoDisk
    /\ out = NoBuild
    /\ b = DataBuilder_new(1)
    /\ calls = 0
    /\ lastAdd = NoAdd
    /\ ret = NoCall
    /\ vtext = NoText
    /\ \E file \in {None, Some(0), Some(4)} :
          project = [build |-> None, file |-> file, log |-> <<>>]

\* project:enable_auto_build_numbers()
EnableAutoBuildNumbers ==
    /\ Len(project.log) < MaxCalls
    /\ project' = [init_build_no(project) EXCEPT !.log = Append(@, [op |-> "enable"])]
    /\ UNCHANGED <<fsOrder, b, calls, lastAdd, spec, disk, out, ret, vtext>>

\* project:reset_build_number()
ResetBuildNumber ==
    /\ Len(project.log) < MaxCalls
    /\ project' = [set_build(project, 0) EXCEPT !.log = Append(@, [op |-> "reset"])]
    /\ UNCHANGED <<fsOrder, b, calls, lastAdd, spec, disk, out, ret, vtext>>

\* Project::build: the log keeps, for each call, whether auto build numbers
\* were on, what buildno.txt held before and after, and the build number
\* and file name the package was built with
ProjectBuild(now, data_time, ctrl_time) ==
    /\ Len(project.log) < MaxCalls
    /\ \E auto \in {project.build # None} :
       \E s0 \in {IF auto THEN [spec EXCEPT !.buildno = project.build] ELSE spec} :
       \E file \in {IF auto THEN increment_build_no(project.file) ELSE project.file} :
       \E r \in {build(pre_process(s0, Some(base_dir)), disk, fsOrder,
                        now, data_time, ctrl_time)} :
           /\ spec' = r.spec
           /\ disk' = r.disk
           /\ out' = [result |-> r.result, name |-> r.name, hashes |-> r.hashes,
                      size |-> r.size, data |-> r.data, ctrl |-> r.ctrl,
                      given |-> spec.files]
           /\ project' = [project EXCEPT
                            !.file = file,
                            !.log = Append(@, [op |-> "build", auto |-> auto,
                                               counter |-> project.file, after |-> file,
                                               buildno |-> s0.buildno, result |-> r.result,
                                               name |-> r.name])]
    /\ UNCHANGED <<fsOrder, b, calls, lastAdd, ret, vtext>>

NextProject ==
    \/ EnableAutoBuildNumbers
    \/ ResetBuildNumber
    \/ \E now \in Clock, data_time \in Clock, ctrl_time \in Clock :
          /\ now <= data_time
          /\ data_time <= ctrl_time
          /\ ProjectBuild(now, data_time, ctrl_time)

SpecProject == InitProject /\ [][NextProject]_vars

-----------------------------------------------------------------------------
(* Properties of Project::build, checked under SpecProject *)

\* C27 (as claimed): with auto build numbers on, every Project::build uses
\* as build number the value buildno.txt holds at the time of that build and
\* then raises the counter by one, so that successive builds of one Project
\* use strictly increasing build numbers.
C27_BuildNumberMonotonic ==
    \A i \in DOMAIN project.log :
        (project.log[i].op = "build" /\ project.log[i].auto) =>
            /\ project.log[i].buildno = project.log[i].counter
            /\ project.log[i].after = Some(project.log[i].counter[1] + 1)
            /\ (i > 1 /\ project.log[i - 1].op = "build" /\ project.log[i - 1].auto) =>
                   project.log[i].buildno[1] > project.log[i - 1].buildno[1]

-----------------------------------------------------------------------------
(* Properties of the payload run twice, checked under SpecPayload *)

\* C26 (as claimed): two runs of the payload builder over the same manifest,
\* the same files and the same clock reading give the same sequence of tar
\* entries and the same list of HashRecords.
C26_PayloadDeterministic ==
    \A i, j \in DOMAIN PayloadRuns :
        PayloadRuns[i].time = PayloadRuns[j].time =>
            /\ PayloadRuns[i].tar = PayloadRuns[j].tar
            /\ PayloadRuns[i].hashes = PayloadRuns[j].hashes

-----------------------------------------------------------------------------
(* Properties of Version, checked under SpecVersion *)

Parsed == ret.fn = "try_from"

\* the text is a number of u32: digits only, at least one, at most u32::MAX
NumberText(t) ==
    /\ t # <<>> /\ \A i \in DOMAIN t : t[i] \in Digit
    /\ \E k \in 0..(Len(t) - 1) :
          /\ \A i \in 1..k : t[i] = "0"
          /\ k + 1 < Len(t) => t[k + 1] # "0"
          /\ Len(t) - k < Len(U32Max)
             \/ (Len(t) - k = Len(U32Max) /\ ~StrLess(U32Max, SubSeq(t, k + 1, Len(t))))

\* n is the number the text t denotes: t without its leading zeros
SameNumber(t, n) ==
    \E k \in 0..(Len(t) - 1) :
        /\ \A i \in 1..k : t[i] = "0"
        /\ SubSeq(t, k + 1, Len(t)) = n
        /\ Len(n) = 1 \/ n[1] # "0"

\* [epoch:]a[.b[.c]][rev] with numbers of u32
ValidText ==
    /\ vtext.epoch # None => NumberText(vtext.epoch[1])
    /\ vtext.prefix = <<>>
    /\ Len(vtext.upstream) <= 3
    /\ \A i \in DOMAIN vtext.upstream : NumberText(vtext.upstream[i])

\* the text after the epoch, and where '~', '+' and '-' occur in it
AfterColon == vtext.prefix \o JoinDots(vtext.upstream) \o vtext.rev
Delimiters == {i \in DOMAIN AfterColon : AfterColon[i] \in {"~", "+", "-"}}

\* C21: for every valid version string [epoch:]a[.b[.c]][rev], try_from
\* yields epoch (0 when absent), major, minor and patch equal to the numbers
\* present (0 for missing trailing ones), and revision equal to the suffix
\* of the text after the epoch that starts at the earliest '~', '+' or '-'
\* (empty when there is none).
C21_ParseFields ==
    (Parsed /\ ValidText) =>
        /\ ret.ok
        /\ IF vtext.epoch = None THEN ret.v.epoch = Zero
           ELSE SameNumber(vtext.epoch[1], ret.v.epoch)
        /\ SameNumber(vtext.upstream[1], ret.v.major)
        /\ IF Len(vtext.upstream) >= 2 THEN SameNumber(vtext.upstream[2], ret.v.minor)
           ELSE ret.v.minor = Zero
        /\ IF Len(vtext.upstream) >= 3 THEN SameNumber(vtext.upstream[3], ret.v.patch)
           ELSE ret.v.patch = Zero
        /\ IF Delimiters = {} THEN ret.v.revision = <<>>
           ELSE \E i \in Delimiters :
                  /\ \A j \in Delimiters : i <= j
                  /\ ret.v.revision = SubSeq(AfterColon, i, Len(AfterColon))

\* a string with an epoch, two sections and a revision that holds all three
\* delimiters was parsed
C21_Witness ==
    /\ Parsed /\ ValidText /\ ret.ok
    /\ vtext.epoch # None /\ Len(vtext.upstream) = 2 /\ Cardinality(Delimiters) = 3

\* an optional '+' and then digits, at least one
UnsignedText(t) ==
    With(IF t # <<>> /\ Head(t) = "+" THEN Tail(t) ELSE t, LAMBDA d :
        d # <<>> /\ \A i \in DOMAIN d : d[i] \in Digit)

\* C22: try_from returns an error and no Version for the empty string, for
\* a text before ':' that is not an unsigned integer, for an empty or
\* non-numeric dot-separated section of the upstream part, and for an
\* upstream part of four sections or more.
C22_ParseErrors ==
    (Parsed /\ \/ vtext.str = <<>>
               \/ vtext.epoch # None /\ ~UnsignedText(vtext.epoch[1])
               \/ \E i \in DOMAIN vtext.upstream :
                     \/ vtext.upstream[i] = <<>>
                     \/ \E k \in DOMAIN vtext.upstream[i] : vtext.upstream[i][k] \notin Digit
               \/ Len(vtext.upstream) >= 4) =>
        ~ret.ok /\ ret.v = NONE

\* a string of four numeric sections was refused
C22_Witness ==
    /\ Parsed /\ ~ret.ok /\ Len(vtext.upstream) = 4 /\ vtext.epoch = None
    /\ \A i \in DOMAIN vtext.upstream : NumberText(vtext.upstream[i])

\* C23 (as claimed): one leading 'v' or 'V' is stripped from the upstream
\* part: va.b.c and Va.b.c parse, to the Version that a.b.c parses to.
C23_LeadingVStripped ==
    (Parsed /\ vtext.prefix \in {<<"v">>, <<"V">>}
            /\ (vtext.epoch # None => NumberText(vtext.epoch[1]))
            /\ Len(vtext.upstream) <= 3
            /\ \A i \in DOMAIN vtext.upstream : NumberText(vtext.upstream[i])) =>
        /\ ret.ok
        /\ ret.v = try_from(VersionText(vtext.epoch, <<>>, vtext.upstream, vtext.rev).str).v

\* C24: for every string try_from accepts, parsing to_string of the parsed
\* Version succeeds and gives the same epoch, major, minor and patch.
C24_ToStringRoundTrip ==
    ret.fn = "to_string" =>
        /\ ret.ok
        /\ ret.again.epoch = ret.v.epoch /\ ret.again.major = ret.v.major
        /\ ret.again.minor = ret.v.minor /\ ret.again.patch = ret.v.patch

\* a Version with a patch number and a revision, parsed of a string with a
\* leading v and without epoch, was written and parsed again
C24_Witness ==
    /\ ret.fn = "to_string" /\ ret.ok
    /\ ret.v.patch # Zero /\ ret.v.revision # <<>>
    /\ vtext.prefix = <<"v">> /\ vtext.epoch = None

\* a number of u32 in ten digits, and the four numbers of a Version in forty
Pad(n) == [i \in 1..(Len(U32Max) - Len(n)) |-> "0"] \o n
NumKey(v) == Pad(v.epoch) \o Pad(v.major) \o Pad(v.minor) \o Pad(v.patch)

\* x comes before y: at the first place they differ x has the smaller byte,
\* or x ends there
Before(x, y) ==
    \E k \in DOMAIN y :
        /\ k <= Len(x) + 1
        /\ \A i \in 1..(k - 1) : x[i] = y[i]
        /\ k = Len(x) + 1 \/ Ascii[x[k]] < Ascii[y[k]]

\* the order of the claim
Ordering(v, w) ==
    IF NumKey(v) # NumKey(w)
    THEN (IF Before(NumKey(v), NumKey(w)) THEN "Less" ELSE "Greater")
    ELSE IF v.revision = w.revision THEN "Equal"
    ELSE IF Before(v.revision, w.revision) THEN "Less" ELSE "Greater"

\* C25: cmp orders parsed versions by (epoch, major, minor, patch) as
\* unsigned integers and then by revision byte-wise; it is antisymmetric,
\* transitive and total, Equal exactly when the versions are ==, and
\* partial_cmp is Some of what cmp returns.
C25_TotalOrder ==
    ret.fn = "cmp" =>
        \A i, j \in 1..3 :
            /\ ret.cmp[i][j] = Ordering(ret.vs[i], ret.vs[j])
            /\ ret.cmp[i][j] \in {"Less", "Equal", "Greater"}
            /\ ret.cmp[i][j] = "Less" <=> ret.cmp[j][i] = "Greater"
            /\ ret.cmp[i][j] = "Equal" <=> ret.eq[i][j]
            /\ ret.eq[i][j] <=> ret.vs[i] = ret.vs[j]
            /\ ret.partial_cmp[i][j] = Some(ret.cmp[i][j])
            /\ \A k \in 1..3 :
                  (ret.cmp[i][j] # "Greater" /\ ret.cmp[j][k] # "Greater")
                     => ret.cmp[i][k] # "Greater"

\* three versions in strictly ascending order were compared, two of which
\* differ in a number of one digit against one of two
C25_Witness ==
    /\ ret.fn = "cmp"
    /\ ret.cmp[1][2] = "Less" /\ ret.cmp[2][3] = "Less"
    /\ \E i, j \in 1..3 : ret.vs[i].minor = <<"9">> /\ ret.vs[j].minor = <<"1", "0">>

-----------------------------------------------------------------------------
(* Properties of BuildSpec::build, checked under Spec *)

Built == out.result = "ok"

\* build returned an error from the loop that adds the manifest entries
FailedAddingEntry == out.result \in {"stat", "unsupported", "read", "invalid path"}

MemberNames == [i \in DOMAIN disk.ar.members |-> disk.ar.members[i].name]

\* C1: after a successful build the destination file holds the ar members
\* debian-binary, control.tar.gz, data.tar.gz, each once and in that order.
C1_MemberOrder ==
    Built =>
        /\ disk.exists /\ ~disk.stale /\ disk.ar.magic
        /\ MemberNames = <<"debian-binary", "control.tar.gz", "data.tar.gz">>

\* a build of a manifest with payload files succeeded
C1_Witness == Built /\ Len(out.hashes) >= 2 /\ Len(spec.files) = MaxFiles

\* C2 (as claimed): when build fails while adding a manifest entry, the
\* destination file holds no ar header and no ar member.
C2_NoPartialArchiveOnEntryError ==
    FailedAddingEntry => (~disk.ar.magic /\ disk.ar.members = <<>>)

NoContact == spec.maintainer = NONE /\ spec.author = NONE /\ spec.email = NONE

\* C3: build on a spec without maintainer, author and email returns the
\* validation error and leaves the destination as it was: not created, not
\* truncated, no ar member written.
C3_ValidationBeforeAnyWrite ==
    (NoContact /\ out.result # NONE) =>
        /\ out.result = "validate"
        /\ disk \in {NoDisk, StaleDisk}

\* build was refused for a spec with files while an older package file existed
C3_Witness == NoContact /\ out.result = "validate" /\ disk = StaleDisk /\ spec.files # <<>>

\* C30: whenever validate succeeds the Maintainer line can be written:
\* build never gets past validate, creates the output file and then fails
\* with "could not build maintainer"; a build that succeeds has exactly one
\* Maintainer line in its control file.
C30_ValidatedSpecHasMaintainer ==
    /\ out.result # "could not build maintainer"
    /\ (out.result \notin {NONE, "validate"}) => ~NoContact
    /\ Built => HowMany(out.ctrl[1].data, "Maintainer") = 1

\* a build succeeded for a spec that has an email and neither maintainer nor
\* author
C30_Witness ==
    Built /\ spec.maintainer = NONE /\ spec.author = NONE /\ spec.email # NONE

\* C5 (as claimed): after a successful build the HashRecords are in ascending
\* order of their archive-relative path.
C5_HashRecordsAscending ==
    Built => \A i, j \in DOMAIN out.hashes :
                i < j => StrLeq(out.hashes[i][2], out.hashes[j][2])

\* text -> its lines, each without the '\n' that ends it
Lines(text) ==
    LET ends == {i \in DOMAIN text : text[i] = "\n"}
        nth(k) == CHOOSE p \in ends : Cardinality({q \in ends : q <= p}) = k
    IN  [k \in 1..Cardinality(ends) |->
            SubSeq(text, (IF k = 1 THEN 0 ELSE nth(k - 1)) + 1, nth(k) - 1)]

HexValue(c) == CHOOSE v \in 0..15 : HexDigits[v + 1] = c

\* the bytes a string of hex digit pairs stands for
HexDecode(txt) == [i \in 1..(Len(txt) \div 2) |-> HexValue(txt[2 * i - 1]) * 16 + HexValue(txt[2 * i])]

Md5sums == out.ctrl[2]

\* C7: md5sums has one row per HashRecord, in HashRecord order: 32 lower-case
\* hex digits that spell the digest, two spaces, the destination without its
\* leading '/', and a newline; only regular files have a row.
C7_Md5sumsRows ==
    Built =>
        LET text == Md5sums.data
            rows == Lines(text)
        IN  /\ Md5sums.head.path = "md5sums"
            /\ text = <<>> \/ Last(text) = "\n"
            /\ Len(rows) = Len(out.hashes)
            /\ Len(rows) = Len(FileEntries(out.data))
            /\ \A i \in DOMAIN rows :
                  LET path == out.hashes[i][2]
                  IN  /\ Len(rows[i]) = 2 * MD5_LEN + 2 + Len(path)
                      /\ \A k \in 1..(2 * MD5_LEN) : rows[i][k] \in Range(HexDigits)
                      /\ HexDecode(SubSeq(rows[i], 1, 2 * MD5_LEN)) = out.hashes[i][1]
                      /\ rows[i][2 * MD5_LEN + 1] = " " /\ rows[i][2 * MD5_LEN + 2] = " "
                      /\ SubSeq(rows[i], 2 * MD5_LEN + 3, Len(rows[i])) = path
                      /\ path # <<>> /\ Head(path) # "/"
                      /\ FileEntries(out.data)[i].path = path
            /\ \A k \in DOMAIN spec.files :
                  (Stat(spec.files[k].src).ok /\ Stat(spec.files[k].src).kind = "file") =>
                      \E i \in DOMAIN rows : out.hashes[i][2] = Relative(spec.files[k].dst)

\* a package with a regular file at an absolute destination and a directory
\* holding a symlink was built
C7_Witness ==
    /\ Built /\ Len(out.hashes) >= 3
    /\ Indices(out.data, "symlink") # {} /\ Indices(out.data, "dir") # {}
    /\ \E k \in DOMAIN spec.files : Head(spec.files[k].dst) = "/" /\ spec.files[k].src = <<"f">>

\* C16 (as claimed): within one build every entry of the control tar carries
\* uid and gid 0 and the same mtime, and that mtime is the build start time
\* stamped on the ar members, also when the clock advances during the build.
C16_ControlTarStampedWithBuildStart ==
    Built =>
        \A i \in DOMAIN out.ctrl :
            /\ out.ctrl[i].head.uid = 0 /\ out.ctrl[i].head.gid = 0
            /\ \A j \in DOMAIN out.ctrl : out.ctrl[i].head.mtime = out.ctrl[j].head.mtime
            /\ \A m \in DOMAIN disk.ar.members :
                  out.ctrl[i].head.mtime = disk.ar.members[m].mtime

\* build got past validate and ran the loop over the manifest
Sorted == out.result \notin {NONE, "validate"}

\* where in the manifest handed to build the i-th entry of the manifest as
\* build left it was (manifest entries are distinct)
Origin(i) == CHOOSE k \in DOMAIN out.given : out.given[k] = spec.files[i]

\* the entries of the data tar that a manifest entry accounts for: the file
\* with its bytes, the directory of a marker, the files beneath a directory
Contribution(file) ==
    {x \in DOMAIN out.data :
        IF file.src = <<>>
        THEN out.data[x].type = "dir" /\ out.data[x].path = Relative(file.dst) \o <<"/">>
        ELSE IF DirSource(file.src)
        THEN /\ out.data[x].type \in {"file", "symlink"}
             /\ Len(out.data[x].path) > Len(Relative(file.dst))
             /\ SubSeq(out.data[x].path, 1, Len(Relative(file.dst)) + 1)
                   = Relative(file.dst) \o <<"/">>
        ELSE /\ out.data[x].type = "file" /\ out.data[x].path = Relative(file.dst)
             /\ Lookup(file.src) # NONE
             /\ FS[Lookup(file.src)].kind = "file"
             /\ out.data[x].data = FS[Lookup(file.src)].content}

\* C19: build leaves the manifest in non-decreasing order of dst, a
\* permutation of what it was given in which entries with equal dst keep
\* their relative order, and the payload entries are added in that order
\* (all of them when the build succeeds).
C19_ManifestSortedStable ==
    Sorted =>
        /\ Len(spec.files) = Len(out.given)
        /\ Range(spec.files) = Range(out.given)
        /\ \A i, j \in DOMAIN spec.files :
              i < j => /\ StrLeq(spec.files[i].dst, spec.files[j].dst)
                       /\ spec.files[i].dst = spec.files[j].dst => Origin(i) < Origin(j)
        /\ \A i, j \in DOMAIN spec.files :
              i < j => \A x \in Contribution(spec.files[i]), y \in Contribution(spec.files[j]) :
                          x < y
        /\ Built => \A i \in DOMAIN spec.files : Contribution(spec.files[i]) # {}

\* a successful build whose manifest was given out of order
C19_Witness ==
    /\ Built /\ Len(spec.files) >= 2 /\ spec.files # out.given
    /\ \A i \in DOMAIN spec.files : Contribution(spec.files[i]) # {}

====
